---------------------------- MODULE Spec2Model ----------------------------
(***************************************************************************)
(* py_parallelizer: the dual-mode worker-pool coordinator.                 *)
(*                                                                         *)
(* One execute() call of one coordinator is modelled, in one of three      *)
(* variants chosen in Init:                                                *)
(*   "threader" : executors/threader.py  ThreadedExecutor                  *)
(*   "threaded" : executors/threaded.py  ThreadedExecutor + ThreadWorker   *)
(*   "process"  : executors/multiprocess.py MultiprocessExecutor           *)
(*                                                                         *)
(* Spec and FairSpec start after construction. BuildSpec starts at the     *)
(* caller's constructor call (a coordinator class or the ParallelExecutor  *)
(* facade) and runs through _get_worker_count and _format_args into the    *)
(* same execute(). ReuseSpec lets a second call follow the first on the    *)
(* same facade or the same ThreadedExecutor.                               *)
(*                                                                         *)
(* Python's None is the empty tuple <<>>, a value v is the 1-tuple <<v>>.  *)
(* Python's 0-based task index i is the 1-based position i+1 here.         *)
(* A KeyboardInterrupt is delivered to the coordinating thread between any *)
(* two statements of the collection loop (the try block of the code).      *)
(***************************************************************************)
EXTENDS Integers, Sequences, FiniteSets

\* ------------------------------------------------------------------ bounds
MaxTasks == 2

MaxWorkers == 2

\* ------------------------------------------------------------------ inputs
\* Argument values of the single parameter of the task function.
ArgVals == {-1, 1, 2}

Modes == {"threader", "threaded", "process"}

ThreadModes == {"threader", "threaded"}

\* results_func: absent, the transform g(r) = r + 1, or a callback that
\* raises on one of the values it is given.
ResultsFuncs == {"None", "incr", "partial"}

None == <<>>

Some(v) == <<v>>

\* The task function, called as func(**kwds): square(number) = number ** 2.
\* The call raises TypeError unless the bundle names exactly the parameter
\* `number`; a negative argument is the caller error on which the function
\* raises (failing_func).
FuncRaises(kwds) == DOMAIN kwds # {"number"} \/ kwds.number < 0

FuncValue(kwds) == kwds.number * kwds.number

\* Sequences over S of length 0..m.
SeqUpTo(S, m) == UNION {[1..l -> S] : l \in 0..m}

\* Parameter names a caller passes sequences for.
Params == {"number", "sleep"}

\* ------------------------------------------------------------------- state
VARIABLES
    mode,             \* which coordinator class runs
    n_workers,        \* self.n_workers
    keywordargs,      \* the argument bundles (dicts), one per task
    kwargs,           \* the caller's mapping: per parameter name None or a sequence
    args,             \* arguments of the coordinator's constructor call, None once dead
    cpu_count,        \* what psutil.cpu_count() returns
    fargs,            \* arguments of the ParallelExecutor(...) call, None without facade
    facade,           \* attributes of the ParallelExecutor object, None until stored
    exc,              \* the exception a constructor or _format_args raised
    run,              \* number of the current execute() / run_*() call
    prev,             \* how the previous call on this object ended
    results_func,     \* self.results_func
    verbose,          \* self.verbose: a progress bar is shown
    pbar_n,           \* self.pbar.n: the progress count (0 while there is no bar)
    cpc,              \* position of the coordinating thread in execute()
    k,                \* loop index of the coordinator's current loop
    results,          \* the result buffer
    interrupt,        \* self.interrupt
    task_queue,       \* self.task_queue
    results_queue,    \* self.results_queue
    stop_event,       \* self.stop_event
    threads,          \* self.threads (ids of the started threads)
    worker,           \* per worker thread: position and the popped item
    finished_workers, \* local of _collect_results
    cur,              \* local `result` of _collect_results
    pool,             \* self.pool: "None" or "Pool"
    pool_log,         \* calls made on the Pool object, in order
    processes,        \* self.processes: per task "handle" or "None"
    job,              \* per submitted job: queued, running, ok, err, lost, killed
    intRaised,        \* history: a KeyboardInterrupt was delivered
    pushed,           \* history: task indices whose (idx, value) was put
    pushedAtInt,      \* history: `pushed` when the interrupt was delivered
    readyAtInt,       \* history: jobs ready and successful at the interrupt
    resultsAtInt,     \* history: the result buffer when the interrupt was delivered
    popped,           \* history: per task, pops by workers
    invoked,          \* history: per task, invocations of func
    submitted,        \* history: per task, puts / apply_async calls
    rf_log,           \* history: per slot, the calls of results_func made for it
    puts,             \* history: per index, the (idx, value) tuples put on results_queue
    writes,           \* history: per slot, the stores into the result buffer
    batching          \* a call of create_batches / flatten_results: arguments, locals, position

vars == <<mode, n_workers, keywordargs, kwargs, args, cpu_count, fargs, facade, exc,
          run, prev, results_func, verbose, pbar_n, cpc, k, results,
          interrupt, task_queue, results_queue, stop_event, threads, worker,
          finished_workers, cur, pool, pool_log, processes, job, intRaised,
          pushed, pushedAtInt, readyAtInt, resultsAtInt, popped, invoked, submitted,
          rf_log, puts, writes, batching>>

config == <<mode, n_workers, keywordargs, kwargs, args, cpu_count, fargs, facade,
            exc, run, prev, results_func, verbose, batching>>

threadVars == <<task_queue, results_queue, stop_event, threads, worker,
                finished_workers, cur>>

procVars == <<pool, pool_log, processes, job>>

N == Len(keywordargs)

Tasks == 1..N

Workers == 1..MaxWorkers

\* ------------------------------------------------------------ queue items
\* Mutant of TaskItem: every item carries the first task (a loop variable
\* captured late).
TaskItemFirst(i) == [stop |-> FALSE, idx |-> 1, kwds |-> keywordargs[1]]

\* task_queue items: (idx, kwds) or the None stop marker.
TaskItem(i) == [stop |-> FALSE, idx |-> i, kwds |-> keywordargs[i]]

StopMarker == [stop |-> TRUE, idx |-> 0, kwds |-> [number |-> 0]]

\* results_queue items: (idx, value) or the "DONE" sentinel.
ResultItem(i, v) == [done |-> FALSE, idx |-> i, value |-> v]

DoneItem == [done |-> TRUE, idx |-> 0, value |-> None]

NoneList(len) == [i \in 1..len |-> None]

ZeroCount(len) == [i \in 1..len |-> 0]

\* ------------------------------------------------------------ results_func
\* _apply_results_func: results_func(value) if results_func else value.
RfRaises(value) ==
    /\ results_func # "None"
    /\ \/ value = None
       \/ results_func = "partial" /\ value = Some(4)

ApplyResultsFunc(value) ==
    IF results_func = "None" THEN value ELSE Some(value[1] + 1)

\* The arguments of one call self.results_func(value): the value alone.
RfCall(value) == [result |-> value, process_index |-> None]

\* rf_log after _apply_results_func(value) was evaluated for slot i.
Logged(i, value) ==
    IF results_func = "None" THEN rf_log
    ELSE [rf_log EXCEPT ![i] = Append(@, RfCall(value))]

\* The counters after one more tuple with index i was put, one more store
\* into slot i was made.
Put(i) == [puts EXCEPT ![i] = @ + 1]

Written(i) == [writes EXCEPT ![i] = @ + 1]

\* What slot i holds once task i's result went through the coordinator.
Expected(i) == ApplyResultsFunc(Some(FuncValue(keywordargs[i])))

\* No call of the batching helpers is under way.
NoBatching ==
    [pc |-> "idle", data |-> <<>>, given |-> 0, n_batches |-> 0, batch_size |-> 0,
     remainder |-> 0, batches |-> <<>>, start |-> 0, i |-> 0, flat |-> <<>>]

\* -------------------------------------------------------------------- Init
Init ==
    /\ mode \in Modes
    /\ n_workers \in 0..MaxWorkers
    /\ keywordargs \in SeqUpTo([number : ArgVals], MaxTasks)
    /\ kwargs = [p \in Params |->
                    IF p = "number"
                    THEN Some([i \in 1..N |-> keywordargs[i].number])
                    ELSE None]
    /\ args = None
    /\ cpu_count = 1
    /\ fargs = None
    /\ facade = None
    /\ exc = "None"
    /\ run = 1
    /\ prev = "none"
    /\ results_func \in IF mode = "threader" THEN {"None"} ELSE ResultsFuncs
    /\ verbose \in BOOLEAN
    /\ pbar_n = 0
    /\ cpc = "begin"
    /\ k = 0
    /\ results = <<>>
    /\ interrupt = FALSE
    /\ task_queue = <<>>
    /\ results_queue = <<>>
    /\ stop_event = FALSE
    /\ threads = {}
    /\ worker = [w \in Workers |-> [pc |-> "unstarted", item |-> StopMarker]]
    /\ finished_workers = 0
    /\ cur = DoneItem
    /\ pool = "None"
    /\ pool_log = <<>>
    /\ processes = <<>>
    /\ job = <<>>
    /\ intRaised = FALSE
    /\ pushed = {}
    /\ pushedAtInt = {}
    /\ readyAtInt = {}
    /\ resultsAtInt = <<>>
    /\ popped = ZeroCount(N)
    /\ invoked = ZeroCount(N)
    /\ submitted = ZeroCount(N)
    /\ rf_log = [i \in 1..N |-> <<>>]
    /\ puts = ZeroCount(N)
    /\ writes = ZeroCount(N)
    /\ batching = NoBatching

\* ============================================================ thread mode
\* Worker threads are anonymous (execute() only counts "DONE" sentinels and
\* joins every thread), so the state keeps their local states in a canonical
\* order: two states that differ by renaming the threads are one state.
PcRank(pc) ==
    CASE pc = "get" -> 0
      [] pc = "check" -> 1
      [] pc = "run" -> 2
      [] pc = "running" -> 3
      [] pc = "exited" -> 4
      [] pc = "crashed" -> 5
      [] OTHER -> 6

WorkerKey(r) == PcRank(r.pc) * (MaxTasks + 1) + r.item.idx

RECURSIVE Insert(_, _)
Insert(r, seq) ==
    IF seq = <<>> THEN <<r>>
    ELSE IF WorkerKey(r) <= WorkerKey(Head(seq)) THEN <<r>> \o seq
    ELSE <<Head(seq)>> \o Insert(r, Tail(seq))

RemoveAt(seq, w) == SubSeq(seq, 1, w - 1) \o SubSeq(seq, w + 1, Len(seq))

\* The worker states with thread w now in local state r.
SetWorker(w, r) == Insert(r, RemoveAt(worker, w))

\* ------------------------------------------------------------ worker thread
\* item = self.task_queue.get()   (blocks while the queue is empty)
WorkerGet(w) ==
    /\ worker[w].pc = "get"
    /\ task_queue # <<>>
    /\ worker' = SetWorker(w, [pc |-> "check", item |-> Head(task_queue)])
    /\ task_queue' = Tail(task_queue)
    /\ popped' = IF Head(task_queue).stop THEN popped
                 ELSE [popped EXCEPT ![Head(task_queue).idx] = @ + 1]
    /\ UNCHANGED <<config, cpc, k, results, interrupt, results_queue, stop_event,
                   threads, finished_workers, cur, procVars, intRaised, pushed,
                   pushedAtInt, readyAtInt, resultsAtInt, invoked, submitted, rf_log, pbar_n, puts, writes>>

\* Mutant of WorkerStops: only the stop marker ends the loop, the flag is
\* not looked at.
WorkerStopsOnMarkerOnly(item) == item.stop

\* if item is None or self.stop_event.is_set(): put("DONE"); break
\* otherwise the worker goes on to the try block that calls the function.
WorkerStops(item) == item.stop \/ stop_event

\* Mutant of WorkerCheck: the break after put("DONE") is missing, the worker
\* goes back to task_queue.get().
WorkerCheckNoBreak(w) ==
    /\ worker[w].pc = "check"
    /\ IF WorkerStops(worker[w].item)
       THEN /\ results_queue' = Append(results_queue, DoneItem)
            /\ worker' = SetWorker(w, [pc |-> "get", item |-> StopMarker])
       ELSE /\ worker' = SetWorker(w, [pc |-> "run", item |-> worker[w].item])
            /\ UNCHANGED results_queue
    /\ UNCHANGED <<config, cpc, k, results, interrupt, task_queue, stop_event,
                   threads, finished_workers, cur, procVars, intRaised, pushed,
                   pushedAtInt, readyAtInt, resultsAtInt, popped, invoked, submitted, rf_log, pbar_n, puts, writes>>

WorkerCheck(w) ==
    /\ worker[w].pc = "check"
    /\ IF WorkerStops(worker[w].item)
       THEN /\ results_queue' = Append(results_queue, DoneItem)
            /\ worker' = SetWorker(w, [pc |-> "exited", item |-> StopMarker])
       ELSE /\ worker' = SetWorker(w, [pc |-> "run", item |-> worker[w].item])
            /\ UNCHANGED results_queue
    /\ UNCHANGED <<config, cpc, k, results, interrupt, task_queue, stop_event,
                   threads, finished_workers, cur, procVars, intRaised, pushed,
                   pushedAtInt, readyAtInt, resultsAtInt, popped, invoked, submitted, rf_log, pbar_n, puts, writes>>

\* idx, kwds = item; result = self.func(**kwds): the call begins. The stop
\* flag was read before, in the if statement; it is not read again.
WorkerInvoke(w) ==
    /\ worker[w].pc = "run"
    /\ worker' = SetWorker(w, [pc |-> "running", item |-> worker[w].item])
    /\ invoked' = [invoked EXCEPT ![worker[w].item.idx] = @ + 1]
    /\ UNCHANGED <<config, cpc, k, results, interrupt, task_queue, results_queue,
                   stop_event, threads, finished_workers, cur, procVars, intRaised,
                   pushed, pushedAtInt, readyAtInt, resultsAtInt, popped, submitted, rf_log, pbar_n, puts, writes>>

\* Mutant of WorkerResult: the value is reported under the next index.
WorkerResultShifted(item) ==
    ResultItem((item.idx % N) + 1, Some(FuncValue(item.kwds)))

\* The (idx, value) a worker puts for a task whose function returned.
WorkerResult(item) == ResultItem(item.idx, Some(FuncValue(item.kwds)))

\* Mutant of FailureItem: the handler reports a value for the failed task.
FailureItemAsZero(item) == ResultItem(item.idx, Some(0))

\* except Exception: self.results_queue.put((idx, None))   (threader.py)
FailureItem(item) == ResultItem(item.idx, None)

\* Mutant of PbarAdvance: the bar is advanced by two.
PbarAdvanceTwice(n) == IF verbose THEN n + 2 ELSE n

\* if self.pbar: self.pbar.update(1)   (pbar_update, _pbar_callback)
PbarAdvance(n) == IF verbose THEN n + 1 ELSE n

\* Mutant of WorkerFinish: the worker thread also writes its value into the
\* result buffer itself.
WorkerFinishStoresDirectly(w) ==
    /\ worker[w].pc = "running"
    /\ LET item == worker[w].item IN
       IF FuncRaises(item.kwds)
       THEN IF mode = "threader"
            THEN /\ results_queue' = Append(results_queue, FailureItem(item))
                 /\ worker' = SetWorker(w, [pc |-> "get", item |-> StopMarker])
                 /\ UNCHANGED <<pushed, results>>
            ELSE /\ worker' = SetWorker(w, [pc |-> "crashed", item |-> StopMarker])
                 /\ UNCHANGED <<results_queue, pushed, results>>
       ELSE /\ results_queue' = Append(results_queue, WorkerResult(item))
            /\ worker' = SetWorker(w, [pc |-> "get", item |-> StopMarker])
            /\ pushed' = pushed \cup {item.idx}
            /\ results' = IF item.idx \in DOMAIN results
                           THEN [results EXCEPT ![item.idx] = Some(FuncValue(item.kwds))]
                           ELSE results
    /\ pbar_n' = IF mode = "threaded" /\ ~FuncRaises(worker[w].item.kwds)
                 THEN PbarAdvance(pbar_n) ELSE pbar_n
    /\ puts' = IF results_queue' = results_queue THEN puts
                ELSE Put(results_queue'[Len(results_queue')].idx)
    /\ UNCHANGED <<config, cpc, k, interrupt, task_queue, stop_event,
                   threads, finished_workers, cur, procVars, intRaised,
                   pushedAtInt, readyAtInt, resultsAtInt, popped, invoked, submitted, rf_log, writes>>

\* self.func(**kwds) returns or raises; self.results_queue.put((idx, result))
\* except Exception: threader puts (idx, None) and goes on;
\*                   ThreadWorker re-raises, which ends the thread.
WorkerFinish(w) ==
    /\ worker[w].pc = "running"
    /\ LET item == worker[w].item IN
       IF FuncRaises(item.kwds)
       THEN IF mode = "threader"
            THEN /\ results_queue' = Append(results_queue, FailureItem(item))
                 /\ worker' = SetWorker(w, [pc |-> "get", item |-> StopMarker])
                 /\ UNCHANGED pushed
            ELSE /\ worker' = SetWorker(w, [pc |-> "crashed", item |-> StopMarker])
                 /\ UNCHANGED <<results_queue, pushed>>
       ELSE /\ results_queue' = Append(results_queue, WorkerResult(item))
            /\ worker' = SetWorker(w, [pc |-> "get", item |-> StopMarker])
            /\ pushed' = pushed \cup {item.idx}
    /\ pbar_n' = IF mode = "threaded" /\ ~FuncRaises(worker[w].item.kwds)
                 THEN PbarAdvance(pbar_n) ELSE pbar_n
    /\ puts' = IF results_queue' = results_queue THEN puts
                ELSE Put(results_queue'[Len(results_queue')].idx)
    /\ UNCHANGED <<config, cpc, k, results, interrupt, task_queue, stop_event,
                   threads, finished_workers, cur, procVars, intRaised,
                   pushedAtInt, readyAtInt, resultsAtInt, popped, invoked, submitted, rf_log, writes>>

\* ------------------------------------------------------- coordinator: dispatch
\* Mutant of ThreadExecuteStart: one thread per slot of the machine is
\* started, whatever n_workers says.
ThreadExecuteStartAll ==
    /\ mode \in ThreadModes
    /\ cpc = "begin"
    /\ threads' = Workers
    /\ worker' = [w \in Workers |-> [pc |-> "get", item |-> StopMarker]]
    /\ results' = IF mode = "threader" THEN NoneList(N) ELSE results
    /\ cpc' = IF N > 0 THEN "enqueue" ELSE "markers"
    /\ k' = 0
    /\ UNCHANGED <<config, interrupt, task_queue, results_queue, stop_event,
                   finished_workers, cur, procVars, intRaised, pushed,
                   pushedAtInt, readyAtInt, resultsAtInt, popped, invoked, submitted, rf_log, pbar_n, puts, writes>>

\* execute(): results pre-allocated (threader), the worker threads started.
ThreadExecuteStart ==
    /\ mode \in ThreadModes
    /\ cpc = "begin"
    /\ threads' = {w \in Workers : w <= n_workers}
    /\ worker' = [w \in Workers |->
                    IF w <= n_workers THEN [pc |-> "get", item |-> StopMarker]
                    ELSE worker[w]]
    /\ results' = IF mode = "threader" THEN NoneList(N) ELSE results
    /\ cpc' = IF N > 0 THEN "enqueue" ELSE "markers"
    /\ k' = 0
    /\ UNCHANGED <<config, interrupt, task_queue, results_queue, stop_event,
                   finished_workers, cur, procVars, intRaised, pushed,
                   pushedAtInt, readyAtInt, resultsAtInt, popped, invoked, submitted, rf_log, pbar_n, puts, writes>>

\* for idx, kwds in enumerate(keywordargs): self.task_queue.put((idx, kwds))
EnqueueTask ==
    /\ mode \in ThreadModes
    /\ cpc = "enqueue"
    /\ task_queue' = Append(task_queue, TaskItem(k + 1))
    /\ submitted' = [submitted EXCEPT ![k + 1] = @ + 1]
    /\ IF k + 1 < N
       THEN /\ k' = k + 1
            /\ UNCHANGED cpc
       ELSE /\ k' = 0
            /\ cpc' = "markers"
    /\ UNCHANGED <<config, results, interrupt, results_queue, stop_event, threads,
                   worker, finished_workers, cur, procVars, intRaised, pushed,
                   pushedAtInt, readyAtInt, resultsAtInt, popped, invoked, rf_log, pbar_n, puts, writes>>

\* Mutant of MarkerCount: one stop marker too few.
MarkerCountShort == n_workers - 1

\* The number of stop markers execute() puts after the tasks.
MarkerCount == n_workers

\* for _ in range(self.n_workers): self.task_queue.put(None)
\* After the last one _collect_results starts (threaded.py allocates its
\* local results list there).
EnqueueMarker ==
    /\ mode \in ThreadModes
    /\ cpc = "markers"
    /\ IF k < MarkerCount
       THEN /\ task_queue' = Append(task_queue, StopMarker)
            /\ k' = k + 1
            /\ UNCHANGED <<cpc, results>>
       ELSE /\ k' = 0
            /\ cpc' = "get"
            /\ results' = IF mode = "threaded" THEN NoneList(N) ELSE results
            /\ UNCHANGED task_queue
    /\ UNCHANGED <<config, interrupt, results_queue, stop_event, threads, worker,
                   finished_workers, cur, procVars, intRaised, pushed,
                   pushedAtInt, readyAtInt, resultsAtInt, popped, invoked, submitted, rf_log, pbar_n, puts, writes>>

\* ------------------------------------------------- coordinator: collection
\* while finished_workers < self.n_workers: result = self.results_queue.get()
CollectGet ==
    /\ mode \in ThreadModes
    /\ cpc = "get"
    /\ finished_workers < n_workers
    /\ results_queue # <<>>
    /\ cur' = Head(results_queue)
    /\ results_queue' = Tail(results_queue)
    /\ cpc' = "store"
    /\ UNCHANGED <<config, k, results, interrupt, task_queue, stop_event, threads,
                   worker, finished_workers, procVars, intRaised, pushed,
                   pushedAtInt, readyAtInt, resultsAtInt, popped, invoked, submitted, rf_log, pbar_n, puts, writes>>

\* The loop condition fails: collection is complete, the threads are joined
\* next (_cleanup_on_done; in threaded.py self.interrupt is False here).
CollectExit ==
    /\ mode \in ThreadModes
    /\ cpc = "get"
    /\ ~(finished_workers < n_workers)
    /\ cpc' = "join"
    /\ UNCHANGED <<config, k, results, interrupt, threadVars, procVars, intRaised,
                   pushed, pushedAtInt, readyAtInt, resultsAtInt, popped, invoked, submitted, rf_log, pbar_n, puts, writes>>

\* Mutant of SlotOf: off by one.
SlotOfShifted(item) == (item.idx % N) + 1

\* The slot a collected (idx, value) is stored at.
SlotOf(item) == item.idx

\* Mutant of Stored: the thread coordinators store the raw value, so that
\* the transform is applied in process mode only.
StoredRaw(value) == value

\* The value stored: threader stores the value as it is, threaded.py stores
\* self._apply_results_func(value).
Stored(value) == IF mode = "threader" THEN value ELSE ApplyResultsFunc(value)

StoreRaises(value) == mode # "threader" /\ RfRaises(value)

\* results[idx] = ... with idx beyond the buffer raises IndexError.
IndexRaises(item) == SlotOf(item) \notin DOMAIN results

\* if result == "DONE": finished_workers += 1
\* else: idx, value = result; results[idx] = value
\* An exception of results_func, or of the store, leaves execute().
CollectStore ==
    /\ mode \in ThreadModes
    /\ cpc = "store"
    /\ IF cur.done
       THEN /\ finished_workers' = finished_workers + 1
            /\ cpc' = "get"
            /\ UNCHANGED <<results, rf_log>>
       ELSE IF StoreRaises(cur.value)
       THEN /\ cpc' = "raised"
            /\ rf_log' = Logged(SlotOf(cur), cur.value)
            /\ UNCHANGED <<results, finished_workers>>
       ELSE IF IndexRaises(cur)
       THEN /\ cpc' = "raised"
            /\ UNCHANGED <<results, rf_log, finished_workers>>
       ELSE /\ results' = [results EXCEPT ![SlotOf(cur)] = Stored(cur.value)]
            /\ rf_log' = Logged(SlotOf(cur), cur.value)
            /\ cpc' = "get"
            /\ UNCHANGED finished_workers
    /\ cur' = DoneItem
    /\ pbar_n' = IF mode = "threader" /\ ~cur.done /\ ~IndexRaises(cur)
                 THEN PbarAdvance(pbar_n) ELSE pbar_n
    /\ writes' = IF cur.done \/ StoreRaises(cur.value) \/ IndexRaises(cur)
                  THEN writes ELSE Written(SlotOf(cur))
    /\ UNCHANGED <<config, k, interrupt, task_queue, results_queue, stop_event,
                   threads, worker, procVars, intRaised, pushed, pushedAtInt,
                   readyAtInt, resultsAtInt, popped, invoked, submitted, puts>>

\* KeyboardInterrupt raised inside _collect_results: blocked in get(), or
\* between get() and the store (the popped `result` goes with the frame). threaded.py sets self.interrupt first thing
\* in its handler; threader sets it after _collect_ready_results.
ThreadInterrupt ==
    /\ mode \in ThreadModes
    /\ cpc \in {"get", "store"}
    /\ ~intRaised
    /\ intRaised' = TRUE
    /\ pushedAtInt' = pushed
    /\ resultsAtInt' = results
    /\ interrupt' = (interrupt \/ mode = "threaded")
    /\ cpc' = "collect_ready"
    /\ cur' = DoneItem
    /\ UNCHANGED <<config, k, results, task_queue, results_queue, stop_event,
                   threads, worker, finished_workers, procVars, pushed, readyAtInt,
                   popped, invoked, submitted, rf_log, pbar_n, puts, writes>>

\* _collect_ready_results / _drain_results_to:
\* while not results_queue.empty(): get_nowait(); store unless "DONE";
\* except Exception: break   (results_func raising, or IndexError)
CollectReadyThread ==
    /\ mode \in ThreadModes
    /\ cpc = "collect_ready"
    /\ IF results_queue = <<>>
       THEN /\ cpc' = "set_flags"
            /\ UNCHANGED <<results, results_queue, rf_log>>
       ELSE LET item == Head(results_queue) IN
            /\ results_queue' = Tail(results_queue)
            /\ IF item.done
               THEN UNCHANGED <<results, cpc, rf_log>>
               ELSE IF StoreRaises(item.value)
               THEN /\ cpc' = "set_flags"
                    /\ rf_log' = Logged(SlotOf(item), item.value)
                    /\ UNCHANGED results
               ELSE IF IndexRaises(item)
               THEN /\ cpc' = "set_flags"
                    /\ UNCHANGED <<results, rf_log>>
               ELSE /\ results' = [results EXCEPT ![SlotOf(item)] = Stored(item.value)]
                    /\ rf_log' = Logged(SlotOf(item), item.value)
                    /\ UNCHANGED cpc
    /\ pbar_n' = IF mode = "threader" /\ results_queue # <<>>
                                       /\ ~Head(results_queue).done
                                       /\ ~IndexRaises(Head(results_queue))
                 THEN PbarAdvance(pbar_n) ELSE pbar_n
    /\ writes' = IF results_queue = <<>> \/ Head(results_queue).done
                     \/ StoreRaises(Head(results_queue).value)
                     \/ IndexRaises(Head(results_queue))
                  THEN writes ELSE Written(SlotOf(Head(results_queue)))
    /\ UNCHANGED <<config, k, interrupt, task_queue, stop_event, threads, worker,
                   finished_workers, cur, procVars, intRaised, pushed, pushedAtInt,
                   readyAtInt, resultsAtInt, popped, invoked, submitted, puts>>

\* self.interrupt = True; self.stop_event.set()
SetFlagsThread ==
    /\ mode \in ThreadModes
    /\ cpc = "set_flags"
    /\ interrupt' = TRUE
    /\ stop_event' = TRUE
    /\ cpc' = "drain_tasks"
    /\ UNCHANGED <<config, k, results, task_queue, results_queue, threads, worker,
                   finished_workers, cur, procVars, intRaised, pushed, pushedAtInt,
                   readyAtInt, resultsAtInt, popped, invoked, submitted, rf_log, pbar_n, puts, writes>>

\* Mutant of SentinelCount: one fresh stop marker too few.
SentinelCountShort == n_workers - 1

\* The number of fresh stop markers _drain_task_queue puts.
SentinelCount == n_workers

\* _drain_task_queue: while not task_queue.empty(): get_nowait()
DrainTaskQueue ==
    /\ mode \in ThreadModes
    /\ cpc = "drain_tasks"
    /\ IF task_queue # <<>>
       THEN /\ task_queue' = Tail(task_queue)
            /\ UNCHANGED <<cpc, k>>
       ELSE /\ cpc' = "sentinels"
            /\ k' = 0
            /\ UNCHANGED task_queue
    /\ UNCHANGED <<config, results, interrupt, results_queue, stop_event, threads,
                   worker, finished_workers, cur, procVars, intRaised, pushed,
                   pushedAtInt, readyAtInt, resultsAtInt, popped, invoked, submitted, rf_log, pbar_n, puts, writes>>

\* for _ in range(self.n_workers): self.task_queue.put(None)
PushSentinel ==
    /\ mode \in ThreadModes
    /\ cpc = "sentinels"
    /\ IF k < SentinelCount
       THEN /\ task_queue' = Append(task_queue, StopMarker)
            /\ k' = k + 1
            /\ UNCHANGED cpc
       ELSE /\ cpc' = "join"
            /\ k' = 0
            /\ UNCHANGED task_queue
    /\ UNCHANGED <<config, results, interrupt, results_queue, stop_event, threads,
                   worker, finished_workers, cur, procVars, intRaised, pushed,
                   pushedAtInt, readyAtInt, resultsAtInt, popped, invoked, submitted, rf_log, pbar_n, puts, writes>>

\* A thread that join() returns for: it left run().
Dead(w) == worker[w].pc \in {"exited", "crashed"}

\* Mutant of Joined: execute() returns without joining.
JoinedNone == {}

\* The threads execute() joins before it returns.
Joined == threads

\* for thread in self.threads: thread.join(); threader then clears
\* self.threads; return results, self.interrupt
JoinThreads ==
    /\ mode \in ThreadModes
    /\ cpc = "join"
    /\ \A w \in Joined : Dead(w)
    /\ threads' = IF mode = "threader" THEN {} ELSE threads
    /\ cpc' = "returned"
    /\ UNCHANGED <<config, k, results, interrupt, task_queue, results_queue,
                   stop_event, worker, finished_workers, cur, procVars, intRaised,
                   pushed, pushedAtInt, readyAtInt, resultsAtInt, popped, invoked, submitted, rf_log, pbar_n, puts, writes>>

\* =========================================================== process mode
\* --------------------------------------------------------- pool workers
PoolRunning == pool_log # <<>> /\ pool_log[Len(pool_log)] # "join"

Ready(i) == job[i] \in {"ok", "err"}

\* A pool worker takes the oldest queued job (the pool's task queue is
\* FIFO); at most n_workers jobs run at once.
JobStart(i) ==
    /\ mode = "process"
    /\ PoolRunning
    /\ i \in DOMAIN job
    /\ job[i] = "queued"
    /\ \A j \in 1..(i - 1) : job[j] # "queued"
    /\ Cardinality({j \in DOMAIN job : job[j] = "running"}) < n_workers
    /\ job' = [job EXCEPT ![i] = "running"]
    /\ invoked' = [invoked EXCEPT ![i] = @ + 1]
    /\ UNCHANGED <<config, cpc, k, results, interrupt, threadVars, pool, pool_log,
                   processes, intRaised, pushed, pushedAtInt, readyAtInt, resultsAtInt, popped,
                   submitted, rf_log, pbar_n, puts, writes>>

\* The job's function returns or raises; its AsyncResult becomes ready.
JobFinish(i) ==
    /\ mode = "process"
    /\ PoolRunning
    /\ i \in DOMAIN job
    /\ job[i] = "running"
    /\ job' = [job EXCEPT ![i] = IF FuncRaises(keywordargs[i]) THEN "err" ELSE "ok"]
    /\ pbar_n' = IF FuncRaises(keywordargs[i]) THEN pbar_n
                 ELSE PbarAdvance(pbar_n)
    /\ UNCHANGED <<config, cpc, k, results, interrupt, threadVars, pool, pool_log,
                   processes, intRaised, pushed, pushedAtInt, readyAtInt, resultsAtInt, popped,
                   invoked, submitted, rf_log, puts, writes>>

\* The worker process running job i dies (killed, out of memory, os._exit).
\* mp.Pool replaces the dead worker, but the job it was running is not
\* resubmitted: its AsyncResult never becomes ready.
JobCrash(i) ==
    /\ mode = "process"
    /\ PoolRunning
    /\ i \in DOMAIN job
    /\ job[i] = "running"
    /\ job' = [job EXCEPT ![i] = "lost"]
    /\ UNCHANGED <<config, cpc, k, results, interrupt, threadVars, pool, pool_log,
                   processes, intRaised, pushed, pushedAtInt, readyAtInt, resultsAtInt, popped,
                   invoked, submitted, rf_log, pbar_n, puts, writes>>

\* ------------------------------------------------------------ coordinator
\* self.pool = mp.Pool(self.n_workers, ...)  (ValueError if n_workers < 1)
\* self.results = [None] * len(self.keywordargs)
\* self.processes = [self.pool.apply_async(...) for kwds in self.keywordargs]
ProcessExecuteStart ==
    /\ mode = "process"
    /\ cpc = "begin"
    /\ IF n_workers < 1
       THEN /\ cpc' = "raised"
            /\ UNCHANGED <<k, results, procVars, submitted>>
       ELSE /\ pool' = "Pool"
            /\ pool_log' = <<"Pool">>
            /\ results' = NoneList(N)
            /\ processes' = [i \in 1..N |-> "handle"]
            /\ job' = [i \in 1..N |-> "queued"]
            /\ submitted' = [i \in 1..N |-> submitted[i] + 1]
            /\ cpc' = "poll"
            /\ k' = 1
    /\ UNCHANGED <<config, interrupt, threadVars, intRaised, pushed, pushedAtInt,
                   readyAtInt, resultsAtInt, popped, invoked, rf_log, pbar_n, puts, writes>>

\* Mutant of JobValue: every handle yields the first job's value.
JobValueFirst(i) == Some(FuncValue(keywordargs[1]))

\* What process.get() returns for a successful job.
JobValue(i) == Some(FuncValue(keywordargs[i]))

\* Mutant of PollHandle: a ready handle is retrieved only once every handle
\* before it has been cleared (results taken in submission order).
PollHandleInOrder ==
    /\ mode = "process"
    /\ cpc = "poll"
    /\ k <= N
    /\ IF processes[k] = "handle" /\ Ready(k)
          /\ \A j \in 1..(k - 1) : processes[j] = "None"
       THEN IF job[k] = "err"
            THEN /\ cpc' = "raised"
                 /\ UNCHANGED <<results, k, rf_log, writes>>
            ELSE IF RfRaises(JobValue(k))
            THEN /\ cpc' = "raised"
                 /\ rf_log' = Logged(k, JobValue(k))
                 /\ UNCHANGED <<results, k, writes>>
            ELSE /\ results' = [results EXCEPT ![k] = ApplyResultsFunc(JobValue(k))]
                 /\ rf_log' = Logged(k, JobValue(k))
                 /\ writes' = Written(k)
                 /\ cpc' = "clear"
                 /\ UNCHANGED k
       ELSE /\ k' = k + 1
            /\ UNCHANGED <<results, cpc, rf_log, writes>>
    /\ UNCHANGED <<config, interrupt, threadVars, procVars, intRaised, pushed,
                   pushedAtInt, readyAtInt, resultsAtInt, popped, invoked, submitted, pbar_n, puts>>

\* One handle of a polling pass of _collect_results:
\* if process: if process.ready(): res = process.get();
\*     self.results[proc_idx] = self._apply_results_func(res)
\* get() re-raises the job's exception; both exceptions leave execute().
PollHandle ==
    /\ mode = "process"
    /\ cpc = "poll"
    /\ k <= N
    /\ IF processes[k] = "handle" /\ Ready(k)
       THEN IF job[k] = "err"
            THEN /\ cpc' = "raised"
                 /\ UNCHANGED <<results, k, rf_log>>
            ELSE IF RfRaises(JobValue(k))
            THEN /\ cpc' = "raised"
                 /\ rf_log' = Logged(k, JobValue(k))
                 /\ UNCHANGED <<results, k>>
            ELSE /\ results' = [results EXCEPT ![k] = ApplyResultsFunc(JobValue(k))]
                 /\ rf_log' = Logged(k, JobValue(k))
                 /\ cpc' = "clear"
                 /\ UNCHANGED k
       ELSE /\ k' = k + 1
            /\ UNCHANGED <<results, cpc, rf_log>>
    /\ writes' = IF processes[k] = "handle" /\ job[k] = "ok" /\ ~RfRaises(JobValue(k))
                  THEN Written(k) ELSE writes
    /\ UNCHANGED <<config, interrupt, threadVars, procVars, intRaised, pushed,
                   pushedAtInt, readyAtInt, resultsAtInt, popped, invoked, submitted, pbar_n, puts>>

\* Mutant of ClearHandle: the handle is left in self.processes.
ClearHandleSkipped ==
    /\ mode = "process"
    /\ cpc = "clear"
    /\ k' = k + 1
    /\ cpc' = "poll"
    /\ UNCHANGED <<config, results, interrupt, threadVars, procVars,
                   intRaised, pushed, pushedAtInt, readyAtInt, resultsAtInt, popped, invoked,
                   submitted, rf_log, pbar_n, puts, writes>>

\* self.processes[proc_idx] = None
ClearHandle ==
    /\ mode = "process"
    /\ cpc = "clear"
    /\ processes' = [processes EXCEPT ![k] = "None"]
    /\ k' = k + 1
    /\ cpc' = "poll"
    /\ UNCHANGED <<config, results, interrupt, threadVars, pool, pool_log, job,
                   intRaised, pushed, pushedAtInt, readyAtInt, resultsAtInt, popped, invoked,
                   submitted, rf_log, pbar_n, puts, writes>>

\* End of a pass: finished once no handle is left, else sleep and poll again.
EndPass ==
    /\ mode = "process"
    /\ cpc = "poll"
    /\ k = N + 1
    /\ IF \A i \in 1..N : processes[i] = "None"
       THEN /\ cpc' = "close"
            /\ UNCHANGED k
       ELSE /\ k' = 1
            /\ UNCHANGED cpc
    /\ UNCHANGED <<config, results, interrupt, threadVars, procVars, intRaised,
                   pushed, pushedAtInt, readyAtInt, resultsAtInt, popped, invoked, submitted, rf_log, pbar_n, puts, writes>>

\* else: self.pool.close(); self.pool.join(); self.pool = None; return
ClosePool ==
    /\ mode = "process"
    /\ cpc = "close"
    /\ pool_log' = pool_log \o <<"close", "join">>
    /\ pool' = "None"
    /\ cpc' = "returned"
    /\ UNCHANGED <<config, k, results, interrupt, threadVars, processes, job,
                   intRaised, pushed, pushedAtInt, readyAtInt, resultsAtInt, popped, invoked,
                   submitted, rf_log, pbar_n, puts, writes>>

\* Mutant of ProcessInterrupt: the handler goes straight to the cleanup,
\* without _collect_ready_results.
ProcessInterruptNoDrain ==
    /\ mode = "process"
    /\ cpc \in {"poll", "clear"}
    /\ ~intRaised
    /\ intRaised' = TRUE
    /\ readyAtInt' = {i \in 1..N : job[i] = "ok"}
    /\ resultsAtInt' = results
    /\ cpc' = "cleanup"
    /\ k' = 1
    /\ UNCHANGED <<config, results, interrupt, threadVars, procVars, pushed,
                   pushedAtInt, popped, invoked, submitted, rf_log, pbar_n, puts, writes>>

\* KeyboardInterrupt raised inside _collect_results.
ProcessInterrupt ==
    /\ mode = "process"
    /\ cpc \in {"poll", "clear"}
    /\ ~intRaised
    /\ intRaised' = TRUE
    /\ readyAtInt' = {i \in 1..N : job[i] = "ok"}
    /\ resultsAtInt' = results
    /\ cpc' = "collect_ready"
    /\ k' = 1
    /\ UNCHANGED <<config, results, interrupt, threadVars, procVars, pushed,
                   pushedAtInt, popped, invoked, submitted, rf_log, pbar_n, puts, writes>>

\* _collect_ready_results, one handle per step:
\* if process and process.ready(): try: res = process.get(timeout=0);
\*     self.results[proc_idx] = self._apply_results_func(res)
\* except Exception: pass
CollectReadyProcess ==
    /\ mode = "process"
    /\ cpc = "collect_ready"
    /\ IF k <= N
       THEN /\ k' = k + 1
            /\ UNCHANGED cpc
            /\ IF processes[k] = "handle" /\ job[k] = "ok"
               THEN /\ rf_log' = Logged(k, JobValue(k))
                    /\ IF ~RfRaises(JobValue(k))
                       THEN results' = [results EXCEPT
                                           ![k] = ApplyResultsFunc(JobValue(k))]
                       ELSE UNCHANGED results
               ELSE UNCHANGED <<results, rf_log>>
       ELSE /\ cpc' = "cleanup"
            /\ UNCHANGED <<k, results, rf_log>>
    /\ writes' = IF k <= N /\ processes[k] = "handle" /\ job[k] = "ok"
                     /\ ~RfRaises(JobValue(k))
                  THEN Written(k) ELSE writes
    /\ UNCHANGED <<config, interrupt, threadVars, procVars, intRaised, pushed,
                   pushedAtInt, readyAtInt, resultsAtInt, popped, invoked, submitted, pbar_n, puts>>

\* _cleanup_on_interrupt: the handles are dropped; if self.pool:
\* self.pool.terminate(); self.pool.join(); self.pool = None
\* terminate() kills the jobs that have not finished.
CleanupOnInterrupt ==
    /\ mode = "process"
    /\ cpc = "cleanup"
    /\ processes' = <<>>
    /\ IF pool # "None"
       THEN /\ pool_log' = pool_log \o <<"terminate", "join">>
            /\ pool' = "None"
            /\ job' = [i \in DOMAIN job |-> IF Ready(i) THEN job[i] ELSE "killed"]
       ELSE UNCHANGED <<pool, pool_log, job>>
    /\ cpc' = "set_interrupt"
    /\ UNCHANGED <<config, k, results, interrupt, threadVars, intRaised, pushed,
                   pushedAtInt, readyAtInt, resultsAtInt, popped, invoked, submitted, rf_log, pbar_n, puts, writes>>

\* Mutant of SetInterruptProcess: the handler returns without setting
\* self.interrupt.
SetInterruptProcessSkipped ==
    /\ mode = "process"
    /\ cpc = "set_interrupt"
    /\ cpc' = "returned"
    /\ UNCHANGED <<config, k, results, interrupt, threadVars, procVars, intRaised,
                   pushed, pushedAtInt, readyAtInt, resultsAtInt, popped, invoked,
                   submitted, rf_log, pbar_n, puts, writes>>

\* self.interrupt = True; return self.results, self.interrupt
SetInterruptProcess ==
    /\ mode = "process"
    /\ cpc = "set_interrupt"
    /\ interrupt' = TRUE
    /\ cpc' = "returned"
    /\ UNCHANGED <<config, k, results, threadVars, procVars, intRaised, pushed,
                   pushedAtInt, readyAtInt, resultsAtInt, popped, invoked, submitted, rf_log, pbar_n, puts, writes>>

\* ============================================================ construction
\* A Python number given as worker count: the integer `whole`, or the float
\* whole + 0.5 when `half`.
PyNums == [whole : 0..MaxWorkers, half : BOOLEAN]

\* int(x) of a non-negative number truncates the fraction.
IntOf(x) == x.whole

Max(a, b) == IF a >= b THEN a ELSE b

\* base.py _get_worker_count(n_workers)
GetWorkerCount(n) ==
    IF n = None THEN Max(cpu_count - 1, 1) ELSE IntOf(n[1])

\* executors/base.py: psutil.cpu_count() if n_workers is None else n_workers.
\* The given number is stored as it is (it is an integer here, see BuildInit).
WorkerCountAsGiven(n) ==
    IF n = None THEN cpu_count ELSE n[1].whole

\* The names the mapping has sequences for, and the sequences' lengths.
Keys(kw) == {p \in Params : kw[p] # None}

Lengths(kw) == {Len(kw[p][1]) : p \in Keys(kw)}

ShortestLen(kw) == CHOOSE l \in Lengths(kw) : \A m \in Lengths(kw) : l <= m

\* Mutant of Bundle: every bundle is built from the first elements.
BundleAtFirst(kw, i) == [p \in Keys(kw) |-> kw[p][1][1]]

\* {arg: args[arg_idx] for arg_idx, arg in enumerate(arguments)} for the
\* i-th tuple of the zip.
Bundle(kw, i) == [p \in Keys(kw) |-> kw[p][1][i]]

\* Mutant of ZipStrict: zip without strict=True stops at the shortest
\* sequence and raises nothing.
ZipShortest(kw) ==
    [raised |-> FALSE, kwds |-> [i \in 1..ShortestLen(kw) |-> Bundle(kw, i)]]

\* for args in zip(*kwargs.values(), strict=True): kwds.append({...})
\* zip yields while every sequence has an element and raises ValueError when
\* some sequence is exhausted and another is not.
ZipStrict(kw) ==
    IF Cardinality(Lengths(kw)) > 1
    THEN [raised |-> TRUE, kwds |-> <<>>]
    ELSE [raised |-> FALSE, kwds |-> [i \in 1..ShortestLen(kw) |-> Bundle(kw, i)]]

\* _format_args(**kwargs): if not kwargs: return []
FormatArgsOf(kw) ==
    IF Keys(kw) = {} THEN [raised |-> FALSE, kwds |-> <<>>] ELSE ZipStrict(kw)

\* What the construction steps leave alone: the state of execute().
execState == <<pbar_n, k, results, interrupt, threadVars, procVars, intRaised,
               pushed, pushedAtInt, readyAtInt, resultsAtInt, batching>>

taskHistory == <<popped, invoked, submitted, rf_log, puts, writes>>

\* executor.py ParallelExecutor.__init__(func, n_workers, verbose): there is
\* no results_func parameter, a call that passes one raises TypeError.
\* parallelizer.py ParallelExecutor.__init__ stores all four.
FacadeInit ==
    /\ cpc = "facade_init"
    /\ IF fargs[1].module = "executor"
       THEN IF fargs[1].results_func # "None"
            THEN /\ cpc' = "raised"
                 /\ exc' = "TypeError"
                 /\ facade' = facade
            ELSE /\ cpc' = "facade"
                 /\ exc' = exc
                 /\ facade' = Some([n_workers |-> fargs[1].n_workers,
                                    verbose |-> fargs[1].verbose])
       ELSE /\ cpc' = "facade"
            /\ exc' = exc
            /\ facade' = Some([n_workers |-> fargs[1].n_workers,
                               results_func |-> fargs[1].results_func,
                               verbose |-> fargs[1].verbose])
    /\ UNCHANGED <<mode, n_workers, keywordargs, kwargs, args, cpu_count, fargs,
                   run, prev, results_func, verbose, execState, taskHistory>>

\* run_threaded(**kwargs).
\* executor.py: ThreadedExecutor(func=, n_workers=, verbose=, **kwargs) of
\* executors/threader.py, whose __init__ takes no **kwargs (TypeError when the
\* mapping names a parameter), then executor.execute() without arguments.
\* parallelizer.py: _ThreadedExecutor(func=, n_workers=, results_func=,
\* verbose=, **kwargs), the code of executors/threaded.py.
RunThreaded ==
    /\ cpc = "facade"
    /\ IF fargs[1].module = "executor"
       THEN /\ mode' = "threader"
            /\ IF Keys(kwargs) # {}
               THEN cpc' = "raised" /\ exc' = "TypeError" /\ args' = args
               ELSE /\ cpc' = "construct"
                    /\ exc' = exc
                    /\ args' = Some([n_workers |-> facade[1].n_workers,
                                     results_func |-> "None",
                                     verbose |-> facade[1].verbose])
       ELSE /\ mode' = "threaded"
            /\ cpc' = "construct"
            /\ exc' = exc
            /\ args' = Some([n_workers |-> facade[1].n_workers,
                             results_func |-> facade[1].results_func,
                             verbose |-> facade[1].verbose])
    /\ UNCHANGED <<n_workers, keywordargs, kwargs, cpu_count, fargs, facade,
                   run, prev, results_func, verbose, execState, taskHistory>>

\* run_multiprocess(**kwargs).
\* executor.py: MultiprocessExecutor(func=, n_workers=, verbose=, **kwargs):
\* the required parameter results_func is not passed, TypeError.
\* parallelizer.py: _MultiprocessExecutor(func=, n_workers=, results_func=,
\* verbose=, **kwargs), the code of executors/multiprocess.py.
RunMultiprocess ==
    /\ cpc = "facade"
    /\ mode' = "process"
    /\ IF fargs[1].module = "executor"
       THEN cpc' = "raised" /\ exc' = "TypeError" /\ args' = args
       ELSE /\ cpc' = "construct"
            /\ exc' = exc
            /\ args' = Some([n_workers |-> facade[1].n_workers,
                             results_func |-> facade[1].results_func,
                             verbose |-> facade[1].verbose])
    /\ UNCHANGED <<n_workers, keywordargs, kwargs, cpu_count, fargs, facade,
                   run, prev, results_func, verbose, execState, taskHistory>>

\* The coordinator's __init__ up to the worker count.
\* base.py: self.results_func = results_func;
\*          self.n_workers = self._get_worker_count(n_workers); verbose.
\* executors/base.py: self.n_workers = psutil.cpu_count() if n_workers is
\*          None else n_workers; self.verbose = verbose.
\* Worker counts above MaxWorkers are outside the modelled range.
Construct ==
    /\ cpc = "construct"
    /\ LET count == IF mode = "threader"
                    THEN WorkerCountAsGiven(args[1].n_workers)
                    ELSE GetWorkerCount(args[1].n_workers)
       IN /\ count <= MaxWorkers
          /\ n_workers' = count
    /\ results_func' = args[1].results_func
    /\ verbose' = args[1].verbose
    /\ cpc' = "format"
    /\ UNCHANGED <<mode, keywordargs, kwargs, args, cpu_count, fargs, facade, exc,
                   run, prev, execState, taskHistory>>

\* self.keywordargs = self._format_args(**kwargs) in base.py __init__;
\* keywordargs = self._format_args(**kwargs), the first statement of
\* execute(**kwargs) in executors/threader.py. The constructor's parameter
\* and the CPU count read are dead afterwards.
FormatArgs ==
    /\ cpc = "format"
    /\ LET r == FormatArgsOf(kwargs) IN
         IF r.raised
         THEN /\ cpc' = "raised"
              /\ exc' = "ValueError"
              /\ UNCHANGED <<keywordargs, taskHistory>>
         ELSE /\ cpc' = "begin"
              /\ exc' = exc
              /\ keywordargs' = r.kwds
              /\ popped' = ZeroCount(Len(r.kwds))
              /\ invoked' = ZeroCount(Len(r.kwds))
              /\ submitted' = ZeroCount(Len(r.kwds))
              /\ rf_log' = [i \in 1..Len(r.kwds) |-> <<>>]
              /\ puts' = ZeroCount(Len(r.kwds))
              /\ writes' = ZeroCount(Len(r.kwds))
    /\ args' = None
    /\ cpu_count' = 1
    /\ UNCHANGED <<mode, n_workers, kwargs, fargs, facade, run, prev,
                   results_func, verbose, execState>>

\* ==================================================================== Next
WorkerStep(w) ==
    WorkerGet(w) \/ WorkerCheck(w) \/ WorkerInvoke(w) \/ WorkerFinish(w)

Coordinator ==
    \/ ThreadExecuteStart
    \/ EnqueueTask
    \/ EnqueueMarker
    \/ CollectGet
    \/ CollectExit
    \/ CollectStore
    \/ CollectReadyThread
    \/ SetFlagsThread
    \/ DrainTaskQueue
    \/ PushSentinel
    \/ JoinThreads
    \/ ProcessExecuteStart
    \/ PollHandle
    \/ ClearHandle
    \/ EndPass
    \/ ClosePool
    \/ CollectReadyProcess
    \/ CleanupOnInterrupt
    \/ SetInterruptProcess

KeyboardInterrupt == ThreadInterrupt \/ ProcessInterrupt

PoolWorkers == \E i \in 1..MaxTasks : JobStart(i) \/ JobFinish(i)

WorkerCrash == \E i \in 1..MaxTasks : JobCrash(i)

Next ==
    \/ Coordinator
    \/ KeyboardInterrupt
    \/ \E w \in Workers : WorkerStep(w)
    \/ PoolWorkers
    \/ WorkerCrash

Spec == Init /\ [][Next]_vars

\* Weak fairness of the coordinating thread, of the worker threads taken
\* together and of the pool's worker processes: the OS schedules every
\* runnable thread, and every started task function comes back. No fairness
\* for KeyboardInterrupt (the user may never press Ctrl-C) nor for the death
\* of a worker process.
Fairness ==
    /\ WF_vars(Coordinator)
    /\ WF_vars(\E w \in Workers : WorkerStep(w))
    /\ WF_vars(PoolWorkers)

FairSpec == Spec /\ Fairness

\* ------------------------------------------------------- construction spec
\* The program from the caller's constructor call on: a coordinator class
\* used directly, or the ParallelExecutor facade of executor.py (the one the
\* package exports) or of parallelizer.py.
NumberSeqs == SeqUpTo(ArgVals, MaxTasks)

SleepSeqs == SeqUpTo({0}, MaxTasks)

ArgMappings ==
    [Params -> {None}]
    \cup {[number |-> Some(a), sleep |-> None] : a \in NumberSeqs}
    \cup {[number |-> None, sleep |-> Some(b)] : b \in SleepSeqs}
    \cup {[number |-> Some(a), sleep |-> Some(b)] : a \in NumberSeqs, b \in SleepSeqs}

\* Worker counts a caller gives: nothing, an integer or a float. The float
\* is given only where the code converts it (executors/threader.py would
\* pass it to range()).
GivenCounts(m) ==
    {None} \cup {Some(x) : x \in {y \in PyNums : m = "threader" => ~y.half}}

CtorArgs(m) ==
    [n_workers : GivenCounts(m),
     results_func : IF m = "threader" THEN {"None"} ELSE {"None", "incr"},
     verbose : {FALSE}]

FacadeArgs ==
    [module : {"executor", "parallelizer"},
     n_workers : {None, Some([whole |-> 1, half |-> FALSE])},
     results_func : {"None", "incr"},
     verbose : BOOLEAN]

BuildInit ==
    /\ \/ /\ mode \in Modes
          /\ cpc = "construct"
          /\ fargs = None
          /\ args \in {Some(a) : a \in CtorArgs(mode)}
       \/ /\ mode = "none"
          /\ cpc = "facade_init"
          /\ fargs \in {Some(a) : a \in FacadeArgs}
          /\ args = None
    /\ facade = None
    /\ cpu_count \in 1..(MaxWorkers + 1)
    /\ kwargs \in ArgMappings
    /\ exc = "None"
    /\ run = 1
    /\ prev = "none"
    /\ n_workers = 0
    /\ keywordargs = <<>>
    /\ results_func = "None"
    /\ verbose = FALSE
    /\ pbar_n = 0
    /\ k = 0
    /\ results = <<>>
    /\ interrupt = FALSE
    /\ task_queue = <<>>
    /\ results_queue = <<>>
    /\ stop_event = FALSE
    /\ threads = {}
    /\ worker = [w \in Workers |-> [pc |-> "unstarted", item |-> StopMarker]]
    /\ finished_workers = 0
    /\ cur = DoneItem
    /\ pool = "None"
    /\ pool_log = <<>>
    /\ processes = <<>>
    /\ job = <<>>
    /\ intRaised = FALSE
    /\ pushed = {}
    /\ pushedAtInt = {}
    /\ readyAtInt = {}
    /\ resultsAtInt = <<>>
    /\ popped = <<>>
    /\ invoked = <<>>
    /\ submitted = <<>>
    /\ rf_log = <<>>
    /\ puts = <<>>
    /\ writes = <<>>
    /\ batching = NoBatching

BuildNext ==
    \/ FacadeInit
    \/ RunThreaded
    \/ RunMultiprocess
    \/ Construct
    \/ FormatArgs
    \/ Next

BuildSpec == BuildInit /\ [][BuildNext]_vars

\* ------------------------------------------------------------- reuse spec
\* One object is used for several calls: a ParallelExecutor of
\* parallelizer.py (run_threaded / run_multiprocess, the coordinators of
\* executors/threaded.py and executors/multiprocess.py), or a
\* ThreadedExecutor of executors/threader.py (execute).
MaxRuns == 2

\* The argument bundles of a later call.
FreshArgs == SeqUpTo([number : {1, 2}], MaxTasks) \ {<<>>}

KwargsOf(kwds) ==
    [p \in Params |->
        IF p = "number" THEN Some([i \in 1..Len(kwds) |-> kwds[i].number])
        ELSE None]

GivenInt(n) == Some([whole |-> n, half |-> FALSE])

\* The next call starts: its arguments, and nothing dispatched, collected or
\* interrupted yet. Threads of the previous call have ended (they were
\* joined), a pool of the previous call is closed or terminated.
NextCall(kwds) ==
    /\ cpc' = "begin"
    /\ run' = run + 1
    /\ prev' = IF interrupt THEN "cancelled" ELSE "normal"
    /\ keywordargs' = kwds
    /\ kwargs' = KwargsOf(kwds)
    /\ pbar_n' = 0
    /\ k' = 0
    /\ results' = <<>>
    /\ threads' = {}
    /\ worker' = [w \in Workers |-> [pc |-> "unstarted", item |-> StopMarker]]
    /\ finished_workers' = 0
    /\ cur' = DoneItem
    /\ pool' = "None"
    /\ pool_log' = <<>>
    /\ processes' = <<>>
    /\ job' = <<>>
    /\ intRaised' = FALSE
    /\ pushed' = {}
    /\ pushedAtInt' = {}
    /\ readyAtInt' = {}
    /\ resultsAtInt' = <<>>
    /\ popped' = ZeroCount(Len(kwds))
    /\ invoked' = ZeroCount(Len(kwds))
    /\ submitted' = ZeroCount(Len(kwds))
    /\ rf_log' = [i \in 1..Len(kwds) |-> <<>>]
    /\ puts' = ZeroCount(Len(kwds))
    /\ writes' = ZeroCount(Len(kwds))
    /\ batching' = batching

\* Mutant of OwnFlagsAndQueues: the call runs on the executor object of the
\* previous call.
SharedFlagsAndQueues ==
    UNCHANGED <<interrupt, stop_event, task_queue, results_queue>>

\* base.py __init__: self.interrupt = False; threaded.py __init__: new
\* Queue(), Queue() and threading.Event() for the executor just constructed.
OwnFlagsAndQueues ==
    /\ interrupt' = FALSE
    /\ stop_event' = FALSE
    /\ task_queue' = <<>>
    /\ results_queue' = <<>>

\* parallelizer.py run_threaded / run_multiprocess, called on a facade whose
\* previous call returned: executor = _ThreadedExecutor(...) or
\* _MultiprocessExecutor(func=self.func, n_workers=self.n_workers,
\* results_func=self.results_func, verbose=self.verbose, **kwargs);
\* return executor.execute()
FacadeRunAgain ==
    /\ facade # None
    /\ cpc = "returned"
    /\ run < MaxRuns
    /\ mode' \in {"threaded", "process"}
    /\ n_workers' = GetWorkerCount(facade[1].n_workers)
    /\ results_func' = facade[1].results_func
    /\ verbose' = facade[1].verbose
    /\ OwnFlagsAndQueues
    /\ \E kwds \in FreshArgs : NextCall(kwds)
    /\ UNCHANGED <<args, cpu_count, fargs, facade, exc>>

\* Mutant of ExecuteAgain: execute() clears the flags and empties the queues
\* of the instance before it starts.
ExecuteAgainClearsFlags ==
    /\ mode = "threader"
    /\ facade = None
    /\ cpc = "returned"
    /\ run < MaxRuns
    /\ OwnFlagsAndQueues
    /\ \E kwds \in FreshArgs : NextCall(kwds)
    /\ UNCHANGED <<mode, n_workers, results_func, verbose, args, cpu_count, fargs,
                   facade, exc>>

\* executors/threader.py execute(**kwargs), called again on the same
\* ThreadedExecutor: keywordargs = self._format_args(**kwargs);
\* self.init_pbar(...); self.threads = []; self.results = [None] * total_jobs.
\* self.task_queue, self.results_queue, self.stop_event and self.interrupt are
\* the ones __init__ made: execute() does not renew them.
ExecuteAgain ==
    /\ mode = "threader"
    /\ facade = None
    /\ cpc = "returned"
    /\ run < MaxRuns
    /\ \E kwds \in FreshArgs : NextCall(kwds)
    /\ UNCHANGED <<mode, n_workers, results_func, verbose, args, cpu_count, fargs,
                   facade, exc, interrupt, stop_event, task_queue, results_queue>>

ReuseInit ==
    /\ mode \in Modes
    /\ n_workers \in 1..MaxWorkers
    /\ keywordargs \in SeqUpTo([number : ArgVals], MaxTasks)
    /\ kwargs = KwargsOf(keywordargs)
    /\ args = None
    /\ cpu_count = 1
    /\ results_func \in IF mode = "threader" THEN {"None"} ELSE {"None", "incr"}
    /\ verbose = FALSE
    /\ IF mode = "threader"
       THEN fargs = None /\ facade = None
       ELSE /\ fargs = Some([module |-> "parallelizer",
                             n_workers |-> GivenInt(n_workers),
                             results_func |-> results_func,
                             verbose |-> verbose])
            /\ facade = Some([n_workers |-> GivenInt(n_workers),
                              results_func |-> results_func,
                              verbose |-> verbose])
    /\ exc = "None"
    /\ run = 1
    /\ prev = "none"
    /\ pbar_n = 0
    /\ cpc = "begin"
    /\ k = 0
    /\ results = <<>>
    /\ interrupt = FALSE
    /\ task_queue = <<>>
    /\ results_queue = <<>>
    /\ stop_event = FALSE
    /\ threads = {}
    /\ worker = [w \in Workers |-> [pc |-> "unstarted", item |-> StopMarker]]
    /\ finished_workers = 0
    /\ cur = DoneItem
    /\ pool = "None"
    /\ pool_log = <<>>
    /\ processes = <<>>
    /\ job = <<>>
    /\ intRaised = FALSE
    /\ pushed = {}
    /\ pushedAtInt = {}
    /\ readyAtInt = {}
    /\ resultsAtInt = <<>>
    /\ popped = ZeroCount(N)
    /\ invoked = ZeroCount(N)
    /\ submitted = ZeroCount(N)
    /\ rf_log = [i \in 1..N |-> <<>>]
    /\ puts = ZeroCount(N)
    /\ writes = ZeroCount(N)
    /\ batching = NoBatching

ReuseNext ==
    \/ FacadeRunAgain
    \/ ExecuteAgain
    \/ Next

ReuseSpec == ReuseInit /\ [][ReuseNext]_vars

\* ---------------------------------------------------------- batching spec
\* utils.py create_batches(data, n_batches) and flatten_results(batches),
\* called by a program that splits its data for nested parallelism. No
\* coordinator is running.
MaxData == 3

DataVals == {1, 2}

DataLists == SeqUpTo(DataVals, MaxData)

BatchCounts == -1..(MaxData + 1)

Min(a, b) == IF a <= b THEN a ELSE b

coordinatorVars ==
    <<mode, n_workers, keywordargs, kwargs, args, cpu_count, fargs, facade, exc,
      run, prev, results_func, verbose, pbar_n, cpc, k, results, interrupt,
      threadVars, procVars, intRaised, pushed, pushedAtInt, readyAtInt,
      resultsAtInt, taskHistory>>

\* if not data: return []
\* if n_batches <= 0: raise ValueError("n_batches must be positive")
\* n_batches = min(n_batches, len(data)); batch_size = len(data) // n_batches
\* remainder = len(data) % n_batches; batches = []; start = 0
CreateBatches ==
    /\ batching.pc = "begin"
    /\ batching' =
         IF batching.data = <<>>
         THEN [batching EXCEPT !.pc = "created", !.batches = <<>>]
         ELSE IF batching.n_batches <= 0
         THEN [batching EXCEPT !.pc = "raised"]
         ELSE LET n == Min(batching.n_batches, Len(batching.data)) IN
              [batching EXCEPT !.pc = "loop",
                               !.n_batches = n,
                               !.batch_size = Len(batching.data) \div n,
                               !.remainder = Len(batching.data) % n,
                               !.batches = <<>>,
                               !.start = 0,
                               !.i = 0]
    /\ UNCHANGED coordinatorVars

\* Mutant of BatchSizeAt: the remainder is not distributed.
BatchSizeEven(i, batch_size, remainder) == batch_size

\* size = batch_size + (1 if i < remainder else 0)
BatchSizeAt(i, batch_size, remainder) ==
    batch_size + (IF i < remainder THEN 1 ELSE 0)

\* data[start : start + size]
Slice(data, start, size) ==
    SubSeq(data, start + 1, Min(start + size, Len(data)))

\* for i in range(n_batches): size = ...
\*     if size > 0: batches.append(data[start : start + size]); start += size
\* return batches
CreateBatchesLoop ==
    /\ batching.pc = "loop"
    /\ batching' =
         IF batching.i < batching.n_batches
         THEN LET size == BatchSizeAt(batching.i, batching.batch_size,
                                      batching.remainder) IN
              IF size > 0
              THEN [batching EXCEPT
                       !.batches = Append(@, Slice(batching.data, batching.start, size)),
                       !.start = @ + size,
                       !.i = @ + 1]
              ELSE [batching EXCEPT !.i = @ + 1]
         ELSE [batching EXCEPT !.pc = "created"]
    /\ UNCHANGED coordinatorVars

\* flat = []; for batch in batch_results: if batch is not None:
\* flat.extend(batch). create_batches returns no None batch.
RECURSIVE FlattenResultsOf(_)
FlattenResultsOf(batch_results) ==
    IF batch_results = <<>> THEN <<>>
    ELSE Head(batch_results) \o FlattenResultsOf(Tail(batch_results))

\* flatten_results(create_batches(data, n_batches))
FlattenResults ==
    /\ batching.pc = "created"
    /\ batching' = [batching EXCEPT !.pc = "flattened",
                                    !.flat = FlattenResultsOf(batching.batches)]
    /\ UNCHANGED coordinatorVars

BatchInit ==
    /\ batching \in {[NoBatching EXCEPT !.pc = "begin", !.data = d,
                                        !.given = n, !.n_batches = n] :
                        d \in DataLists, n \in BatchCounts}
    /\ mode = "none"
    /\ n_workers = 0
    /\ keywordargs = <<>>
    /\ kwargs = [p \in Params |-> None]
    /\ args = None
    /\ cpu_count = 1
    /\ fargs = None
    /\ facade = None
    /\ exc = "None"
    /\ run = 1
    /\ prev = "none"
    /\ results_func = "None"
    /\ verbose = FALSE
    /\ pbar_n = 0
    /\ cpc = "none"
    /\ k = 0
    /\ results = <<>>
    /\ interrupt = FALSE
    /\ task_queue = <<>>
    /\ results_queue = <<>>
    /\ stop_event = FALSE
    /\ threads = {}
    /\ worker = [w \in Workers |-> [pc |-> "unstarted", item |-> StopMarker]]
    /\ finished_workers = 0
    /\ cur = DoneItem
    /\ pool = "None"
    /\ pool_log = <<>>
    /\ processes = <<>>
    /\ job = <<>>
    /\ intRaised = FALSE
    /\ pushed = {}
    /\ pushedAtInt = {}
    /\ readyAtInt = {}
    /\ resultsAtInt = <<>>
    /\ popped = <<>>
    /\ invoked = <<>>
    /\ submitted = <<>>
    /\ rf_log = <<>>
    /\ puts = <<>>
    /\ writes = <<>>

BatchNext ==
    \/ CreateBatches
    \/ CreateBatchesLoop
    \/ FlattenResults

BatchSpec == BatchInit /\ [][BatchNext]_vars



\* ================================================================== claims
Returned == cpc = "returned"

NoTaskFails == \A i \in Tasks : ~FuncRaises(keywordargs[i])

NoTransformRaises == \A i \in Tasks : ~RfRaises(Some(FuncValue(keywordargs[i])))

Started == {w \in Workers : w <= n_workers}

AllFilled == Len(results) = N /\ \A i \in Tasks : results[i] = Expected(i)

\* C1: thread mode, normal completion. With n_workers >= 1, no interrupt and
\* no failing task, execute returns (results, False), results has one slot
\* per task and slot i holds the (transformed) value of task i, whatever the
\* order in which the workers completed.
C1_ThreadNormalCompletion ==
    (mode \in ThreadModes /\ n_workers >= 1 /\ Returned /\ ~intRaised /\ NoTaskFails)
        => (interrupt = FALSE /\ AllFilled)

C1_Witness ==
    /\ mode \in ThreadModes /\ Returned /\ ~intRaised /\ NoTaskFails
    /\ n_workers >= 2 /\ N >= 2 /\ keywordargs[1] # keywordargs[2]
    /\ AllFilled

\* C2: process mode, normal completion. With n_workers >= 1, no interrupt and
\* no failing task, execute returns (results, False) with slot i holding the
\* (transformed) value of the i-th submitted job, whatever order the jobs
\* became ready in.
C2_ProcessNormalCompletion ==
    (mode = "process" /\ n_workers >= 1 /\ Returned /\ ~intRaised /\ NoTaskFails)
        => (interrupt = FALSE /\ AllFilled)

C2_Witness ==
    /\ mode = "process" /\ Returned /\ ~intRaised /\ NoTaskFails
    /\ n_workers >= 2 /\ N >= 2 /\ keywordargs[1] # keywordargs[2]
    /\ results_func = "incr"
    /\ AllFilled

\* The result buffer exists: from the start of collection to the return.
BufferLive == cpc \notin {"begin", "enqueue", "markers", "raised"}

IsOutputOf(v, i) ==
    /\ ~FuncRaises(keywordargs[i])
    /\ ~RfRaises(Some(FuncValue(keywordargs[i])))
    /\ v = Expected(i)

\* C3: during collection, during the cancellation drain and at return, in
\* both modes, the buffer has one slot per task and slot i is None or the
\* (transformed) output of task i, never another task's output.
C3_SlotsHoldOwnOutput ==
    BufferLive =>
        /\ Len(results) = N
        /\ \A i \in Tasks : results[i] = None \/ IsOutputOf(results[i], i)

C3_Witness ==
    /\ cpc = "collect_ready"
    /\ N >= 2 /\ keywordargs[1] # keywordargs[2]
    /\ results_func = "incr"
    /\ results[1] = None /\ results[2] = Expected(2)

\* C4: thread mode cancellation keeps completed work. If the
\* KeyboardInterrupt comes after k < n tasks have put their (index, value),
\* execute returns wasCancelled = True and the buffer holds each of those k
\* values (transformed) at its index.
C4_ThreadCancelKeepsPushed ==
    (mode \in ThreadModes /\ Returned /\ intRaised /\ Cardinality(pushedAtInt) < N)
        => /\ interrupt = TRUE
           /\ \A i \in pushedAtInt :
                ~RfRaises(Some(FuncValue(keywordargs[i]))) => results[i] = Expected(i)

\* C5: process mode cancellation keeps completed work. Every job that was
\* ready and successful when the KeyboardInterrupt came has its (transformed)
\* value at its index in the returned buffer, the pool is still running while
\* the ready handles are drained, and execute returns wasCancelled = True.
C5_ProcessCancelKeepsReady ==
    /\ (mode = "process" /\ cpc \in {"collect_ready", "cleanup"}) => PoolRunning
    /\ (mode = "process" /\ Returned /\ intRaised)
        => /\ interrupt = TRUE
           /\ \A i \in readyAtInt :
                ~RfRaises(JobValue(i)) => results[i] = Expected(i)

C5_Witness ==
    /\ mode = "process" /\ Returned /\ intRaised
    /\ \E i \in readyAtInt : resultsAtInt[i] = None /\ results[i] = Expected(i)
    /\ \E j \in Tasks : results[j] = None

AllWorkersExited == \A w \in Started : worker[w].pc = "exited"

C6_Pre == mode \in ThreadModes /\ n_workers >= 1 /\ NoTaskFails /\ NoTransformRaises

C6_Done == Returned /\ AllWorkersExited /\ finished_workers = n_workers

\* C6: thread mode terminates on the normal path. With n_workers >= 1, any
\* number of tasks (zero included), every task function returning and no
\* interrupt, every worker eventually pops a stop marker, puts "DONE" and
\* exits, the collector counts n_workers sentinels and execute returns.
C6_ThreadNormalTermination == C6_Pre => <>(intRaised \/ C6_Done)

C6_Witness ==
    /\ C6_Pre /\ ~intRaised /\ C6_Done
    /\ N = 0 /\ n_workers >= 2
    /\ task_queue = <<>> /\ results_queue = <<>>

AllWorkersDead == \A w \in Started : Dead(w)

OnlyStopMarkers == \A j \in 1..Len(task_queue) : task_queue[j].stop

\* C7: thread mode terminates on the cancelled path. After an interrupt the
\* cleanup sets the stop flag, empties the task queue and puts fresh stop
\* markers; the join of every worker thread then completes and execute
\* returns, no worker staying blocked on the task queue.
C7_ThreadCancelTermination ==
    /\ []((mode \in ThreadModes /\ intRaised /\ cpc \in {"join", "returned"})
            => (stop_event /\ OnlyStopMarkers))
    /\ ((mode \in ThreadModes /\ intRaised) ~> (Returned /\ AllWorkersDead))

C7_Witness ==
    /\ mode \in ThreadModes /\ intRaised /\ Returned /\ AllWorkersDead
    /\ n_workers >= 2 /\ N >= 2
    /\ \E i \in Tasks : popped[i] = 0
    /\ \E i \in Tasks : invoked[i] = 1

AfterDispatch == cpc \notin {"begin", "enqueue", "raised"}

\* C8: every task is dispatched to exactly one worker. Thread mode: each
\* (index, arguments) item is put once, popped by at most one worker and its
\* function invoked at most once; process mode: each task is submitted once.
\* On a return without cancellation with n_workers >= 1 every task's function
\* has been invoked exactly once.
C8_DispatchedExactlyOnce ==
    /\ \A i \in Tasks : popped[i] <= 1 /\ invoked[i] <= 1 /\ submitted[i] <= 1
    /\ \A i \in Tasks : invoked[i] <= popped[i] + (IF mode = "process" THEN 1 ELSE 0)
    /\ AfterDispatch => \A i \in Tasks : submitted[i] = 1
    /\ (Returned /\ ~intRaised /\ n_workers >= 1)
        => \A i \in Tasks : invoked[i] = 1 /\ (mode \in ThreadModes => popped[i] = 1)

C8_Witness ==
    /\ mode \in ThreadModes /\ Returned /\ ~intRaised
    /\ n_workers >= 2 /\ N >= 2
    /\ \A i \in Tasks : invoked[i] = 1 /\ popped[i] = 1 /\ submitted[i] = 1

\* C9: thread mode releases its workers on both return paths. When execute
\* returns, normally or cancelled, every worker thread the call started has
\* terminated (and was joined).
C9_ThreadsJoinedAtReturn ==
    (mode \in ThreadModes /\ Returned) => AllWorkersDead

C9_Witness ==
    /\ mode \in ThreadModes /\ Returned /\ interrupt
    /\ n_workers >= 2 /\ AllWorkersDead
    /\ \E i \in Tasks : invoked[i] = 1 /\ results[i] = None

ReleasedOnce ==
    \/ pool_log = <<"Pool", "close", "join">> /\ ~intRaised
    \/ pool_log = <<"Pool", "terminate", "join">> /\ intRaised

\* C10: process mode releases its pool exactly once on every exit path of
\* execute: closed and joined on normal completion, terminated and joined on
\* interrupt, and released as well when an exception of a task or of
\* results_func leaves the collection loop; self.pool is None afterwards.
C10_PoolReleasedOnEveryExit ==
    (mode = "process" /\ cpc \in {"returned", "raised"} /\ pool_log # <<>>)
        => (pool = "None" /\ ReleasedOnce)


\* The workers that passed the stop check and have not called func yet.
PassedCheck == {w \in Workers : worker[w].pc = "run"}

\* A worker that tests the stop flag while it is set never goes on to a task.
C11_NoTaskPastSetFlag ==
    [][(mode \in ThreadModes /\ stop_event)
          => Cardinality(PassedCheck') <= Cardinality(PassedCheck)]_vars

\* C11: thread mode, once stop_event is set no worker starts a new task: no
\* invocation of the task function begins after the flag became true, and a
\* worker that pops an item while the flag is set puts "DONE" and exits
\* without running it.
C11_NoStartAfterStop ==
    [][(mode \in ThreadModes /\ stop_event)
          => /\ invoked' = invoked
             /\ Cardinality(PassedCheck') <= Cardinality(PassedCheck)]_vars

C11_Witness ==
    /\ mode \in ThreadModes /\ Returned /\ stop_event
    /\ \E i \in Tasks : popped[i] = 1 /\ invoked[i] = 0

\* C12: cancellation is a completion mode, not an error. In both modes
\* execute returns wasCancelled = True exactly when a KeyboardInterrupt was
\* raised in the coordinator during the collection loop; the interrupt is
\* then not re-raised (execute does not leave by exception) and execute
\* returns the buffer, one slot per task, as far as it was filled.
C12_CancelIsCompletionMode ==
    /\ [](Returned => (interrupt = intRaised /\ Len(results) = N))
    /\ [](intRaised => cpc # "raised")
    /\ (intRaised ~> Returned)

C12_Witness ==
    /\ mode = "threaded" /\ Returned /\ intRaised /\ interrupt
    /\ \E i \in Tasks : results[i] # None
    /\ \E i \in Tasks : results[i] = None /\ invoked[i] = 0

\* C13: thread mode, cancelled path. When execute returns after an
\* interrupt, every task whose function ran to completion before the return
\* (a task that was in flight at the interrupt and finished during the join
\* included) has its (transformed) value in the returned buffer; a slot is
\* None only for a task that never completed.
C13_CancelDrainsInFlight ==
    (mode \in ThreadModes /\ Returned /\ intRaised)
        => \A i \in pushed :
              ~RfRaises(Some(FuncValue(keywordargs[i]))) => results[i] = Expected(i)

\* What threader's buffer holds for task i once its outcome was collected.
OutcomeSlot(i) ==
    IF FuncRaises(keywordargs[i]) THEN None ELSE Some(FuncValue(keywordargs[i]))

SomeTaskFails == \E i \in Tasks : FuncRaises(keywordargs[i])

SomeTaskSucceeds == \E i \in Tasks : ~FuncRaises(keywordargs[i])

SucceedingFilled ==
    \A i \in Tasks : ~FuncRaises(keywordargs[i]) => results[i] = Expected(i)

\* C15: threaded.ThreadedExecutor with ThreadWorker. When one task's function
\* raises among others that succeed, the pool completes without hanging:
\* execute returns, the succeeding tasks' slots holding their values.
C15_ThreadedSurvivesFailure ==
    (/\ mode = "threaded" /\ n_workers >= 1
     /\ SomeTaskFails /\ SomeTaskSucceeds /\ NoTransformRaises)
        => <>(intRaised \/ (Returned /\ SucceedingFilled))

\* C16: failure isolation in process mode. When one task's function raises
\* in a worker process, the failure stays in that task's slot: the
\* collection of the sibling tasks is not aborted (no exception leaves
\* execute) and execute delivers every sibling's value at its index.
C16_ProcessIsolatesFailure ==
    (/\ mode = "process" /\ n_workers >= 1 /\ ~intRaised
     /\ SomeTaskFails /\ NoTransformRaises)
        => /\ cpc # "raised"
           /\ Returned => SucceedingFilled

SomeJobLost == mode = "process" /\ \E i \in DOMAIN job : job[i] = "lost"

CollectionLoopLeft == cpc \notin {"poll", "clear"}

\* C17: process mode. If a worker process dies while running a task,
\* independently of cancellation, the coordinator does not hang: the
\* collection loop of execute eventually terminates.
C17_NoHangOnWorkerDeath == SomeJobLost ~> CollectionLoopLeft

\* The task's function is no longer running (it returned, raised, or never
\* started); at the return of a thread-mode execute every worker was joined.
Finished(i) ==
    IF mode = "process" THEN job[i] \in {"ok", "err"}
    ELSE \A w \in Workers : ~(worker[w].pc = "running" /\ worker[w].item.idx = i)

TaskOutcome(i) ==
    IF invoked[i] = 0 THEN "never ran"
    ELSE IF ~Finished(i) THEN "unfinished"
    ELSE IF FuncRaises(keywordargs[i]) THEN "ran and failed"
    ELSE "ran and returned a value"

Told == {"never ran", "ran and failed", "ran and returned a value"}

\* C18: in the returned buffer the caller can tell apart, at each index, a
\* task that never ran, a task that ran and failed and a task that ran and
\* returned a value: two tasks with different outcomes never have the same
\* slot content.
C18_OutcomesDistinguishable ==
    Returned =>
        \A i, j \in Tasks :
            (TaskOutcome(i) \in Told /\ TaskOutcome(j) \in Told
                /\ TaskOutcome(i) # TaskOutcome(j))
            => results[i] # results[j]

\* C19: when a results_func is given, it is invoked exactly once for each
\* task result that reaches the buffer, in both modes, on the normal
\* collection path and on the cancellation drain, and the slot stores what it
\* returned.
C19_TransformOncePerResult ==
    (Returned /\ results_func # "None")
        => \A i \in Tasks :
              results[i] # None
                  => /\ Len(rf_log[i]) = 1
                     /\ results[i] = ApplyResultsFunc(rf_log[i][1].result)

\* C20: results_func is called with the raw result and a process_index equal
\* to the original index of the task that produced it: every call made for
\* task i receives func applied to the i-th argument bundle and
\* process_index = i, in thread mode and in process mode.
C20_TransformGetsTaskIndex ==
    \A i \in DOMAIN rf_log :
        \A c \in 1..Len(rf_log[i]) :
            /\ rf_log[i][c].result = Some(FuncValue(keywordargs[i]))
            /\ rf_log[i][c].process_index = Some(i)

\* C21: result accumulation happens only in the coordinating context. Every
\* step that writes a slot of the result buffer or calls results_func is a
\* step of the thread that called execute, never a step of a worker thread
\* (or of a pool worker process).
C21_OnlyCoordinatorAccumulates ==
    [][(results' # results \/ rf_log' # rf_log) => Coordinator]_vars

C21_Witness ==
    /\ mode = "threaded" /\ results_func = "incr" /\ cpc = "get"
    /\ \E i \in Tasks : results[i] = Expected(i) /\ Len(rf_log[i]) = 1
    /\ \E w \in Workers : worker[w].pc = "running"

\* The tasks whose function was called and has returned or raised.
CompletedTasks == {i \in Tasks : invoked[i] >= 1 /\ Finished(i)}

\* C22: with verbose enabled the progress sink is advanced once per
\* completed task: never more often than tasks have completed, and after a
\* normal completion of n tasks the progress count is n. With verbose
\* disabled no progress call is made.
C22_ProgressOncePerTask ==
    /\ pbar_n <= Cardinality(CompletedTasks)
    /\ (verbose /\ Returned /\ ~intRaised /\ n_workers >= 1) => pbar_n = N
    /\ ~verbose => pbar_n = 0

C22_Witness ==
    /\ verbose /\ Returned /\ ~intRaised /\ n_workers >= 2
    /\ mode = "threaded" /\ N = 2 /\ pbar_n = 2

\* C28: a bad worker count (n_workers <= 0) is a pool-setup error: execute
\* raises in every mode instead of returning a result buffer, so no task is
\* left unexecuted behind a return with wasCancelled = False.
C28_BadWorkerCountRaises ==
    n_workers <= 0 => /\ cpc # "returned"
                      /\ (Returned /\ ~interrupt => \A i \in Tasks : invoked[i] >= 1)

\* What calling func on every bundle in turn and passing each value through
\* results_func gives: the result list of a sequential run, the same for
\* every coordinator.
SequentialResult == [i \in Tasks |-> Expected(i)]

\* C27: mode equivalence. For the same inputs, with n_workers >= 1, no
\* interrupt and no failing task, every coordinator that returns returns the
\* result list of the sequential run, so thread mode and process mode return
\* identical lists.
C27_ModesReturnSameList ==
    (n_workers >= 1 /\ Returned /\ ~intRaised /\ NoTaskFails)
        => results = SequentialResult

C27_Witness ==
    /\ mode = "threaded" /\ results_func = "incr" /\ Returned /\ ~intRaised
    /\ n_workers = 1 /\ N = 2 /\ keywordargs[1] # keywordargs[2]
    /\ results = SequentialResult /\ results[1] # results[2]


\* ---------------------------------------------------- construction claims
Mismatched(kw) == Cardinality(Lengths(kw)) > 1

\* A coordinator class is used directly, without the facade.
Direct == fargs = None

\* The constructor and _format_args are behind the coordinator.
Formatted ==
    /\ exc = "None"
    /\ cpc \notin {"facade_init", "facade", "construct", "format"}

NothingStarted ==
    /\ threads = {}
    /\ \A w \in Workers : worker[w].pc = "unstarted"
    /\ pool = "None"
    /\ job = <<>>
    /\ task_queue = <<>>
    /\ \A i \in DOMAIN invoked : invoked[i] = 0

\* C23: argument sequences of different lengths make the coordinator raise
\* ValueError before a worker thread or process is started and before any
\* task is invoked; no bundle list is produced, nothing is truncated or
\* padded. (The mapping reaches a coordinator: directly or through a facade
\* call that did not end in TypeError.)
C23_MismatchRaisesBeforeStart ==
    (Mismatched(kwargs) /\ exc # "TypeError") =>
        /\ cpc \in {"facade_init", "facade", "construct", "format", "raised"}
        /\ cpc = "raised" => exc = "ValueError"
        /\ keywordargs = <<>>
        /\ NothingStarted

C23_Witness ==
    /\ Direct /\ cpc = "raised" /\ exc = "ValueError"
    /\ kwargs.number # None /\ kwargs.sleep # None
    /\ Len(kwargs.number[1]) = 2 /\ Len(kwargs.sleep[1]) = 1
    /\ n_workers = 2

\* C24: _format_args, given names mapped to sequences all of length n,
\* returns exactly n bundles, bundle i mapping every name to the i-th element
\* of its sequence; an empty mapping gives the empty list.
C24_FormatArgsBundles ==
    Formatted =>
        /\ Keys(kwargs) = {} => keywordargs = <<>>
        /\ \A p \in Keys(kwargs) : Len(keywordargs) = Len(kwargs[p][1])
        /\ \A i \in 1..Len(keywordargs) :
              /\ DOMAIN keywordargs[i] = Keys(kwargs)
              /\ \A p \in Keys(kwargs) : keywordargs[i][p] = kwargs[p][1][i]

C24_Witness ==
    /\ cpc = "begin" /\ exc = "None"
    /\ Keys(kwargs) = {"number", "sleep"}
    /\ Len(keywordargs) = 2
    /\ keywordargs[1].number # keywordargs[2].number

\* The worker count the documentation gives: max(cpu_count - 1, 1) when none
\* is given, int(n_workers) otherwise.
DocumentedCount(n) == IF n = None THEN Max(cpu_count - 1, 1) ELSE IntOf(n[1])

\* C29: the worker count of a constructed coordinator is max(CPU count - 1, 1)
\* when n_workers is not given, for every CPU count >= 1, and int(n_workers)
\* when it is given.
C29_WorkerCount ==
    cpc = "format" => n_workers = DocumentedCount(args[1].n_workers)

\* C30: the facade stores func, n_workers, results_func and verbose, forwards
\* all four unchanged to the coordinator of the selected mode together with
\* the argument mapping (no TypeError on the way), and run_threaded selects
\* the thread coordinator, run_multiprocess the process coordinator.
C30_FacadeStoresAndForwards ==
    ~Direct =>
        /\ exc # "TypeError"
        /\ facade # None =>
              /\ DOMAIN facade[1] = {"n_workers", "results_func", "verbose"}
              /\ facade[1].n_workers = fargs[1].n_workers
              /\ facade[1].results_func = fargs[1].results_func
              /\ facade[1].verbose = fargs[1].verbose
        /\ cpc = "format" =>
              /\ args[1].n_workers = fargs[1].n_workers
              /\ results_func = fargs[1].results_func
              /\ verbose = fargs[1].verbose


\* ------------------------------------------------------------ reuse claims
\* A later call on the same object is in progress or has ended.
LaterCall == run >= 2

\* What a call on a fresh object gives: nothing left over at its start, the
\* flag of the returned pair tells whether this call was interrupted, and a
\* call without interrupt and without failing task returns the complete list.
LikeFreshObject ==
    /\ cpc = "begin" =>
          /\ ~interrupt /\ ~stop_event
          /\ task_queue = <<>> /\ results_queue = <<>>
    /\ Returned => interrupt = intRaised
    /\ (Returned /\ ~intRaised /\ NoTaskFails /\ NoTransformRaises)
          => results = SequentialResult

\* C25: successive run_threaded / run_multiprocess calls on one
\* ParallelExecutor are independent. Each call owns its interrupt flag, its
\* stop flag and its queues, so a later call behaves as on a fresh facade,
\* whether the earlier call returned normally or cancelled.
C25_FacadeCallsIndependent ==
    (facade # None /\ LaterCall) => LikeFreshObject

C25_Witness ==
    /\ facade # None /\ LaterCall /\ prev = "cancelled"
    /\ mode = "threaded" /\ Returned /\ ~intRaised /\ ~interrupt
    /\ N = 2 /\ results = SequentialResult

\* C26: execute called again on the same ThreadedExecutor of
\* executors/threader.py with fresh arguments returns what a fresh instance
\* would return, whether the previous execute returned normally or
\* cancelled.
C26_ReexecuteLikeFresh ==
    (mode = "threader" /\ facade = None /\ LaterCall) => LikeFreshObject


\* ---------------------------------------------------------- further claims
\* MultiprocessExecutor._cleanup_on_interrupt has returned into execute().
CleanupReturned == mode = "process" /\ cpc = "set_interrupt"

\* C32: after MultiprocessExecutor._cleanup_on_interrupt returns, interrupt
\* is True, pool is None, and every slot of results that was filled is
\* unchanged.
C32_CleanupSetsInterrupt ==
    CleanupReturned =>
        /\ interrupt = TRUE
        /\ pool = "None"
        /\ \A i \in DOMAIN resultsAtInt :
              resultsAtInt[i] # None => results[i] = resultsAtInt[i]


\* results_func was called on a value it raises on.
TransformRaised ==
    \E i \in DOMAIN rf_log : \E c \in 1..Len(rf_log[i]) : RfRaises(rf_log[i][c].result)

\* C33: an exception raised by results_func is not suppressed on any path:
\* raised during normal collection or during the cancellation drain, in
\* thread mode or in process mode, it leaves execute (execute does not go on
\* and does not return).
C33_TransformExceptionPropagates ==
    TransformRaised => cpc = "raised"


\* C34: under normal operation (no interrupt) each result slot is written at
\* most once. In thread mode at most one (index, value) tuple per task index
\* is ever put on the result queue; in process mode a handle whose value was
\* stored is cleared in the same pass (it is the handle the pass is at, or it
\* is gone) and its value is never retrieved again.
C34_SlotWrittenAtMostOnce ==
    ~intRaised =>
        /\ \A i \in DOMAIN writes : writes[i] <= 1
        /\ \A i \in DOMAIN puts : puts[i] <= 1
        /\ mode = "process" =>
              \A i \in DOMAIN writes :
                 (writes[i] = 1 /\ i \in DOMAIN processes) =>
                     \/ processes[i] = "None"
                     \/ cpc = "clear" /\ k = i

C34_Witness ==
    /\ ~intRaised /\ Returned /\ N = 2 /\ n_workers = 2
    /\ mode = "process"
    /\ \A i \in Tasks : writes[i] = 1


\* The step stays on one coordinator instance (the facade constructs a new
\* coordinator for every call).
SameInstance == run' = run \/ facade = None

\* C35: the cancellation signal of a coordinator instance, stop_event and
\* the interrupt flag, is write-once-true: false at construction, set only
\* by the handling of a KeyboardInterrupt, and once true never cleared.
C35_SignalWriteOnceTrue ==
    /\ (~interrupt /\ ~stop_event)
    /\ [][SameInstance =>
            /\ interrupt => interrupt'
            /\ stop_event => stop_event'
            /\ (interrupt' # interrupt \/ stop_event' # stop_event) => intRaised']_vars

C35_Witness ==
    /\ mode = "threader" /\ run = 2 /\ prev = "cancelled"
    /\ interrupt /\ stop_event /\ ~intRaised /\ cpc = "get"


\* ------------------------------------------------------------------ C36
StartedWorkers == {w \in Workers : worker[w].pc # "unstarted"}

InProgress == {w \in Workers : worker[w].pc = "running"}

\* C36: in thread mode one execute call starts exactly n_workers worker
\* threads, and at every moment at most n_workers invocations of the task
\* function are in progress.
C36_WorkerBound ==
    (mode \in ThreadModes /\ cpc # "begin") =>
        /\ Cardinality(StartedWorkers) = n_workers
        /\ Cardinality(InProgress) <= n_workers

C36_Witness ==
    /\ mode = "threader"
    /\ n_workers = 1
    /\ N = 2
    /\ Cardinality(InProgress) = 1
    /\ task_queue # <<>>
    /\ ~Head(task_queue).stop

\* ------------------------------------------------------------------ C37
\* A step of the collector inside _collect_results (not the interrupt).
CollectorStep ==
    /\ mode = "process"
    /\ cpc \in {"poll", "clear"}
    /\ cpc' # cpc \/ k' # k
    /\ ~intRaised'

AtHandle == cpc = "poll" /\ k <= N

ReadyHandle(j) == processes[j] = "handle" /\ Ready(j)

AllCleared == \A i \in 1..N : processes[i] = "None"

Polling == mode = "process" /\ cpc = "poll" /\ k \in 1..(N + 1)

\* C37: process-mode collection is driven by readiness. A ready handle at the
\* index the pass has reached is retrieved in that pass (its value stored, or
\* its exception raised) whatever the state of the handles before it; a handle
\* that is not ready is stepped over without waiting; the loop is left for the
\* normal clean-up at the end of a pass, and exactly when no handle is left.
C37_ReadinessDriven ==
    /\ [](Polling => ENABLED (PollHandle \/ EndPass))
    /\ [][CollectorStep =>
            /\ (AtHandle /\ ReadyHandle(k)) =>
                  /\ cpc' \in {"clear", "raised"}
                  /\ cpc' = "clear" => results'[k] = Expected(k)
                  /\ (job[k] = "ok" /\ ~RfRaises(JobValue(k))) => cpc' = "clear"
            /\ (AtHandle /\ ~ReadyHandle(k)) =>
                  /\ k' = k + 1
                  /\ cpc' = "poll"
                  /\ results' = results
                  /\ processes' = processes
            /\ (cpc = "poll" /\ k = N + 1) => (cpc' = "close" <=> AllCleared)
            /\ cpc' = "close" => (cpc = "poll" /\ k = N + 1)]_vars

C37_Witness ==
    /\ mode = "process"
    /\ N = 2
    /\ cpc = "poll"
    /\ ~intRaised
    /\ processes[1] = "handle"
    /\ ~Ready(1)
    /\ processes[2] = "None"
    /\ results[2] = Expected(2)

\* ------------------------------------------------------------------ C38
\* The workers that left their loop.
Exited == {w \in Workers : worker[w].pc = "exited"}

RECURSIVE DoneCount(_)
DoneCount(q) ==
    IF q = <<>> THEN 0
    ELSE (IF Head(q).done THEN 1 ELSE 0) + DoneCount(Tail(q))

\* The "DONE" the collector took from the queue and has not counted yet.
DoneInHand == IF cpc = "store" /\ cur.done THEN 1 ELSE 0

DonePushed ==
    /\ Len(results_queue') = Len(results_queue) + 1
    /\ results_queue'[Len(results_queue')].done

\* C38: in threader each worker pushes exactly one "DONE", as the last thing
\* it does: a "DONE" is pushed only by a worker that leaves its loop in the
\* same step and never comes back. So the "DONE" pushed during one execute and
\* the finished-worker counter never exceed n_workers, and the collection loop
\* runs while the counter is below n_workers and is left when it equals it.
C38_OneDonePerWorker ==
    /\ [](mode = "threader" =>
            /\ Cardinality(Exited) <= n_workers
            /\ finished_workers <= n_workers
            /\ ~intRaised =>
                  /\ DoneCount(results_queue) + DoneInHand + finished_workers
                         = Cardinality(Exited)
                  /\ cpc = "store" => finished_workers < n_workers
                  /\ cpc \in {"join", "returned"} => finished_workers = n_workers)
    /\ [][mode = "threader" =>
            /\ Cardinality(Exited') >= Cardinality(Exited)
            /\ DonePushed => Cardinality(Exited') = Cardinality(Exited) + 1]_vars

C38_Witness ==
    /\ mode = "threader"
    /\ n_workers = 2
    /\ N = 2
    /\ ~intRaised
    /\ cpc = "join"
    /\ finished_workers = 2
    /\ Cardinality(Exited) = 2

\* ------------------------------------------------------------------ C39
\* C39: when threader's execute returns on the normal path, the task queue
\* and the result queue are both empty: every tuple and every "DONE" was
\* collected, every task and every stop marker was taken by a worker.
C39_QueuesEmptyAtReturn ==
    (mode = "threader" /\ Returned /\ ~intRaised) =>
        /\ task_queue = <<>>
        /\ results_queue = <<>>


\* ------------------------------------------------------------------ C40
\* C40: a later execute on the same threader.ThreadedExecutor is not touched
\* by an earlier one, cancelled or not: a filled slot of its buffer holds the
\* value one of its own tasks pushed, no leftover tuple makes its store fail,
\* and its collection is left on the normal path only once its own
\* n_workers workers have all stopped.
C40_NoCrossCallContamination ==
    (mode = "threader" /\ run > 1) =>
        /\ \A i \in DOMAIN results :
              results[i] # None => (i \in pushed /\ results[i] = Expected(i))
        /\ cpc # "raised"
        /\ (cpc = "join" /\ ~intRaised) => Cardinality(Exited) = n_workers

\* ------------------------------------------------------------------ C31
BatchesReturned == batching.pc \in {"created", "flattened"}

RECURSIVE TotalLen(_)
TotalLen(bs) == IF bs = <<>> THEN 0 ELSE Len(Head(bs)) + TotalLen(Tail(bs))

\* The batches are min(given, len(data)) non-empty consecutive pieces of
\* data, in order, covering it, their sizes non-increasing and at most one
\* apart.
Partitioned ==
    LET b == batching.batches
        d == batching.data
    IN /\ Len(b) = Min(batching.given, Len(d))
       /\ TotalLen(b) = Len(d)
       /\ \A j \in 1..Len(b) :
             /\ b[j] # <<>>
             /\ b[j] = SubSeq(d, TotalLen(SubSeq(b, 1, j - 1)) + 1,
                                 TotalLen(SubSeq(b, 1, j)))
       /\ \A j, l \in 1..Len(b) :
             j < l => (Len(b[j]) >= Len(b[l]) /\ Len(b[j]) - Len(b[l]) <= 1)

PartitionsAndFlattensBack ==
    /\ (BatchesReturned /\ batching.given >= 1) => Partitioned
    /\ (batching.pc = "flattened" /\ batching.given >= 1) =>
           batching.flat = batching.data

\* C31 as stated: for n_batches >= 1 create_batches partitions data into
\* min(n_batches, len(data)) contiguous, order-preserving, non-empty batches
\* with sizes at most one apart, larger first, and flatten_results gives data
\* back; for n_batches <= 0 the call raises ValueError (it never gets past
\* the test of n_batches).
C31_Original ==
    /\ PartitionsAndFlattensBack
    /\ batching.given <= 0 => batching.pc \in {"idle", "begin", "raised"}

\* C31, amended: the same partition property for n_batches >= 1; for
\* n_batches <= 0 the call raises ValueError when data is not empty, and
\* returns the empty list of batches when data is empty.
C31_BatchesPartition ==
    /\ PartitionsAndFlattensBack
    /\ (batching.given <= 0 /\ batching.data # <<>>) =>
           batching.pc \in {"idle", "begin", "raised"}
    /\ (batching.data = <<>> /\ batching.pc \notin {"idle", "begin"}) =>
           (BatchesReturned /\ batching.batches = <<>>)

C31_Witness ==
    /\ batching.pc = "flattened"
    /\ Len(batching.data) = 3
    /\ batching.given = 2
    /\ Len(batching.batches) = 2
    /\ Len(batching.batches[1]) = 2
    /\ batching.flat = batching.data
=============================================================================
